---- MODULE Spec2Model ----
(***************************************************************************)
(* Mask-wear image classification: the dataset indexer (dataset.py) and    *)
(* the model family (model.py).                                            *)
(*                                                                         *)
(* Representation of strings the code takes apart:                         *)
(*   - a profile name is the sequence of its underscore-separated fields   *)
(*     ("000001_male_Asian_20" is <<"000001","male","Asian","20">>), so    *)
(*     str.split("_") is the sequence itself;                              *)
(*   - a file name is <<stem, extension>> ("mask1.jpg" is                  *)
(*     <<"mask1", ".jpg">>), so str.endswith(ext) reads the second field;  *)
(*   - a path is the sequence of its components <<root, profile, file>>.   *)
(***************************************************************************)
EXTENDS Integers, Sequences, FiniteSets, TLC

VARIABLES
    disk,       \* the set of paths that exist on the filesystem
    meta,       \* the `path` column of the metadata table, in row order
    store,      \* the class-level list objects: <<class, attribute>> -> list
    objects,    \* the dataset objects constructed so far (instance __dict__)
    lastCall,   \* history: the most recent constructor call and its outcome
    lastOp,     \* history: the most recent set_phase / transform call
    lastSet,    \* history: per object, the phase of its last successful set_phase
    net         \* the model object under construction (model.py)

vars == <<disk, meta, store, objects, lastCall, lastOp, lastSet, net>>

dataVars == <<disk, meta, store, objects, lastCall, lastOp, lastSet>>

----------------------------------------------------------------------------
(* Bounds *)

MaxRows == 2        \* rows of the metadata table
MaxInst == 2        \* constructor calls in one process

----------------------------------------------------------------------------
(* dataset.py: constants *)

IMG_EXTENSIONS ==
    {".jpg", ".JPG", ".jpeg", ".JPEG", ".png", ".PNG", ".ppm", ".PPM", ".bmp", ".BMP"}

Labels == [mask |-> 0, incorrect |-> 1, normal |-> 2]

\* _file_names with the labels of incorrect_mask.jpg and normal.jpg exchanged.
_file_names_swapped ==
    << <<<<"mask1", ".jpg">>, Labels.mask>>,
       <<<<"mask2", ".jpg">>, Labels.mask>>,
       <<<<"mask3", ".jpg">>, Labels.mask>>,
       <<<<"mask4", ".jpg">>, Labels.mask>>,
       <<<<"mask5", ".jpg">>, Labels.mask>>,
       <<<<"incorrect_mask", ".jpg">>, Labels.normal>>,
       <<<<"normal", ".jpg">>, Labels.incorrect>> >>

\* The dict _file_names in insertion order (the order dict.items() iterates).
_file_names ==
    << <<<<"mask1", ".jpg">>, Labels.mask>>,
       <<<<"mask2", ".jpg">>, Labels.mask>>,
       <<<<"mask3", ".jpg">>, Labels.mask>>,
       <<<<"mask4", ".jpg">>, Labels.mask>>,
       <<<<"mask5", ".jpg">>, Labels.mask>>,
       <<<<"incorrect_mask", ".jpg">>, Labels.incorrect>>,
       <<<<"normal", ".jpg">>, Labels.normal>> >>

\* Python values a gender label can be: an int, or the bound method type.mro
\* (getattr(GenderLabels, "mro") succeeds: every class has it).
PyInt(n) == <<"int", n>>
PyMroMethod == <<"builtin_method", 0>>

\* getattr(self.GenderLabels, gender): [ok, value]; not ok is AttributeError.
getattr_GenderLabels(gender) ==
    CASE gender = "male"   -> [ok |-> TRUE, value |-> PyInt(0)]
      [] gender = "female" -> [ok |-> TRUE, value |-> PyInt(1)]
      [] gender = "mro"    -> [ok |-> TRUE, value |-> PyMroMethod]
      [] OTHER             -> [ok |-> FALSE, value |-> PyInt(0)]

\* Channel statistics, as <<kind, the image paths they were computed from>>.
None == <<"None", <<>> >>
HardcodedMean == <<"[0.5366, 0.5323, 0.5183]", <<>> >>
HardcodedStd == <<"[0.2456, 0.2517, 0.2605]", <<>> >>
SuppliedMean == <<"mean argument", <<>> >>
SuppliedStd == <<"std argument", <<>> >>

StatSampleCap == 3000

----------------------------------------------------------------------------
(* Inputs *)

IMG_ROOT == "resized_data"

P_male == <<"000001", "male", "Asian", "20">>
P_female == <<"000002", "female", "Asian", "54">>
P_short == <<"000003", "male", "Asian">>              \* three fields
P_other == <<"000004", "other", "Asian", "30">>       \* no such gender
P_mro == <<"000005", "mro", "Asian", "41">>

Profiles == {P_male, P_female, P_short, P_other, P_mro}

\* The files that may or may not exist; every other path is missing.
CandidatePaths ==
    { <<IMG_ROOT, P_male, <<"mask1", ".jpg">> >>,
      <<IMG_ROOT, P_male, <<"normal", ".jpg">> >>,
      <<IMG_ROOT, P_female, <<"mask2", ".jpg">> >>,
      <<IMG_ROOT, P_female, <<"incorrect_mask", ".jpg">> >>,
      <<IMG_ROOT, P_short, <<"mask1", ".jpg">> >>,
      <<IMG_ROOT, P_other, <<"normal", ".jpg">> >>,
      <<IMG_ROOT, P_mro, <<"mask1", ".jpg">> >> }

SeqsUpTo(S, n) == UNION {[1..k -> S] : k \in 0..n}

Tables == SeqsUpTo(Profiles, MaxRows)

Classes == {"MaskBaseDataset", "MaskMultiLabelDataset"}

ListAttrs == {"image_paths", "labels", "gender_labels"}

----------------------------------------------------------------------------
(* dataset.py: helpers *)

\* os.path.join(img_root, profile, file_name) for relative components.
join(root, profile, file_name) == <<root, profile, file_name>>

\* os.path.exists(img_path)
exists(img_path) == img_path \in disk

is_image_file(filename) == filename[Len(filename)][2] \in IMG_EXTENSIONS

\* setup() without its os.path.exists test.
ShouldAppend_no_exists(img_path) == is_image_file(img_path)

\* The condition under which setup() appends a sample.
ShouldAppend(img_path) == exists(img_path) /\ is_image_file(img_path)

\* Attribute lookup of a class-level list through the MRO: the class whose body
\* binds the name. image_paths and labels are bound in MaskBaseDataset only,
\* gender_labels in MaskMultiLabelDataset; no instance ever rebinds them, so
\* the other keys of the store stay empty.
\* (Owner_rebound_in_subclass: every class binding lists of its own.)
Owner_rebound_in_subclass(cls, attr) == cls

Owner(cls, attr) ==
    IF attr = "gender_labels" THEN "MaskMultiLabelDataset" ELSE "MaskBaseDataset"

ListOf(st, cls, attr) == st[<<Owner(cls, attr), attr>>]

AppendTo(st, cls, attr, v) ==
    [st EXCEPT ![<<Owner(cls, attr), attr>>] = Append(@, v)]

\* One pass of the inner loop body, on run state r = [st, err, at]: the store,
\* the error raised ("none" while running) and the path it was raised at.
Visit(cls, r, root, profile, entry) ==
    LET img_path == join(root, profile, entry[1])
        label == entry[2]
    IN  IF ~ShouldAppend(img_path) THEN r
        ELSE LET st2 == AppendTo(AppendTo(r.st, cls, "image_paths", img_path),
                                 cls, "labels", label)
             IN  IF cls = "MaskBaseDataset" THEN [r EXCEPT !.st = st2]
                 ELSE IF Len(profile) # 4
                      THEN [st |-> st2, err |-> "ValueError", at |-> img_path]
                      ELSE LET g == getattr_GenderLabels(profile[2])
                           IN  IF ~g.ok
                               THEN [st |-> st2, err |-> "AttributeError", at |-> img_path]
                               ELSE [r EXCEPT !.st = AppendTo(st2, cls, "gender_labels", g.value)]

RECURSIVE ForFiles(_, _, _, _, _)
ForFiles(cls, r, root, profile, j) ==
    IF j > Len(_file_names) \/ r.err # "none" THEN r
    ELSE ForFiles(cls, Visit(cls, r, root, profile, _file_names[j]), root, profile, j + 1)

RECURSIVE ForProfiles(_, _, _, _, _)
ForProfiles(cls, r, root, profiles, k) ==
    IF k > Len(profiles) \/ r.err # "none" THEN r
    ELSE ForProfiles(cls, ForFiles(cls, r, root, profiles[k], 1), root, profiles, k + 1)

\* setup() of either class: the store it leaves and the error it raises.
setup(cls, st, root, profiles) ==
    ForProfiles(cls, [st |-> st, err |-> "none", at |-> <<>>], root, profiles, 1)

Min(a, b) == IF a < b THEN a ELSE b

\* The attribute assignments at the head of __init__; mean and std are
\* assigned literals whatever the arguments are.
InitFields(cls, img_root, phase, mean, std) ==
    [cls |-> cls, img_root |-> img_root, phase |-> phase,
     mean |-> HardcodedMean, std |-> HardcodedStd]

calc_statistics(self, paths) ==
    LET has_statistics == self.mean # None /\ self.std # None
        sample == SubSeq(paths, 1, Min(Len(paths), StatSampleCap))
    IN  IF has_statistics THEN self
        ELSE [self EXCEPT !.mean = <<"computed mean", sample>>,
                          !.std = <<"computed std", sample>>]

image_paths(self) == ListOf(store, self.cls, "image_paths")
labels(self) == ListOf(store, self.cls, "labels")
gender_labels(self) == ListOf(store, self.cls, "gender_labels")
len(self) == Len(image_paths(self))

train_transform ==
    <<"Resize", "RandomRotation", "GaussianBlur", "ColorJitter", "ToTensor",
      "Normalize", "AddGaussianNoise">>

test_transform == <<"Resize", "ToTensor", "Normalize">>

----------------------------------------------------------------------------
(* dataset.py: operations *)

NoOp == [op |-> "none", obj |-> 0, arg |-> "none", before |-> "none", result |-> <<>>]

\* MaskBaseDataset(...) / MaskMultiLabelDataset(...): __init__ runs setup()
\* and then calc_statistics(); an error in setup() leaves no object behind,
\* but what setup() appended before it stays in the class-level lists.
Construct(cls, phase, mean, std) ==
    /\ lastCall.n < MaxInst
    /\ LET self0 == InitFields(cls, IMG_ROOT, phase, mean, std)
           r == setup(cls, store, self0.img_root, meta)
           self1 == calc_statistics(self0, ListOf(r.st, cls, "image_paths"))
       IN  /\ store' = r.st
           /\ objects' = IF r.err = "none" THEN Append(objects, self1) ELSE objects
           /\ lastSet' = IF r.err = "none" THEN Append(lastSet, "unset") ELSE lastSet
           /\ lastCall' = [n |-> lastCall.n + 1, cls |-> cls, err |-> r.err, at |-> r.at,
                           mean |-> mean, std |-> std, before |-> store,
                           failures |-> lastCall.failures + (IF r.err = "none" THEN 0 ELSE 1)]
    /\ lastOp' = NoOp
    /\ UNCHANGED <<disk, meta, net>>

\* set_phase without its assertion.
set_phase_unchecked(i, phase) ==
    /\ i \in 1..Len(objects)
    /\ objects' = [objects EXCEPT ![i].phase = phase]
    /\ lastSet' = [lastSet EXCEPT ![i] = phase]
    /\ lastOp' = [op |-> "set_phase", obj |-> i, arg |-> phase,
                  before |-> objects[i].phase, result |-> <<"ok">>]
    /\ UNCHANGED <<disk, meta, store, lastCall, net>>

\* set_phase(phase): the assertion, then the assignment.
set_phase(i, phase) ==
    /\ i \in 1..Len(objects)
    /\ IF phase \in {"train", "test"}
       THEN /\ objects' = [objects EXCEPT ![i].phase = phase]
            /\ lastSet' = [lastSet EXCEPT ![i] = phase]
            /\ lastOp' = [op |-> "set_phase", obj |-> i, arg |-> phase,
                          before |-> objects[i].phase, result |-> <<"ok">>]
       ELSE /\ lastOp' = [op |-> "set_phase", obj |-> i, arg |-> phase,
                          before |-> objects[i].phase, result |-> <<"AssertionError">>]
            /\ UNCHANGED <<objects, lastSet>>
    /\ UNCHANGED <<disk, meta, store, lastCall, net>>

\* transform(image): the pipeline the phase selects, or AttributeError.
transform(i) ==
    /\ i \in 1..Len(objects)
    /\ lastOp' = [op |-> "transform", obj |-> i, arg |-> "image",
                  before |-> objects[i].phase,
                  result |-> IF objects[i].phase = "train" THEN train_transform
                             ELSE IF objects[i].phase = "test" THEN test_transform
                             ELSE <<"AttributeError">>]
    /\ UNCHANGED <<disk, meta, store, objects, lastCall, lastSet, net>>

----------------------------------------------------------------------------
(* model.py *)

ModelClasses == {"MaskBaseModel", "AlexNet", "VGG19"}

\* Indices, in their nn.Sequential, of the layers that own parameters.
AlexNetConv == {0, 3, 6, 8, 10}
AlexNetLinear == {1, 4, 6}
VGG19Conv == {0, 2, 5, 7, 10, 12, 14, 16, 19, 21, 23, 25, 28, 30, 32, 34}
VGG19Linear == {0, 3, 6}

\* A parameter is <<sub-module, layer index, "weight" or "bias">>.
ParamsOf(module, indices) == {module} \X indices \X {"weight", "bias"}

Fresh(names, data) == [p \in names |-> [requires_grad |-> TRUE, data |-> data]]

\* build_layers(num_classes, pretrained): [ok, params]. The abstract base
\* raises NotImplementedError; VGG19 takes torchvision's vgg19, whose
\* pretrained weights come from a download that can fail, and replaces its
\* classifier by a new one.
build_layers(cls, num_classes, pretrained, download_ok) ==
    CASE cls = "AlexNet" ->
            [ok |-> TRUE,
             params |-> Fresh(ParamsOf("features", AlexNetConv)
                                \cup ParamsOf("classifier", AlexNetLinear), "default")]
      [] cls = "VGG19" ->
            IF pretrained /\ ~download_ok
            THEN [ok |-> FALSE, params |-> << >>]
            ELSE [ok |-> TRUE,
                  params |->
                      Fresh(ParamsOf("net.features", VGG19Conv),
                            IF pretrained THEN "pretrained" ELSE "default")
                      @@ Fresh(ParamsOf("net.classifier", VGG19Linear), "default")]
      [] OTHER -> [ok |-> FALSE, params |-> << >>]

backbone_layers(cls) == IF cls = "AlexNet" THEN "features" ELSE "net.features"

classifier_layers(cls) == IF cls = "AlexNet" THEN "classifier" ELSE "net.classifier"

\* module.parameters()
parameters(params, module) == {p \in DOMAIN params : p[1] = module}

\* isinstance(m, nn.Conv2d) / nn.Linear, for the module owning parameter p;
\* neither network holds a BatchNorm2d.
IsLinear(p) == p[1] \in {"classifier", "net.classifier"}

\* _initialize_weights(): writes the data of every Conv2d and Linear
\* parameter and leaves requires_grad alone.
_initialize_weights(params) ==
    [p \in DOMAIN params |->
        [params[p] EXCEPT !.data =
            IF p[3] = "bias" THEN "zeros"
            ELSE IF IsLinear(p) THEN "normal(0, 0.01)" ELSE "xavier_uniform"]]

\* _freeze_net() reaching every parameter of the model.
_freeze_net_all(cls, params) ==
    [p \in DOMAIN params |-> [params[p] EXCEPT !.requires_grad = FALSE]]

\* _freeze_net(): requires_grad off for the parameters of backbone_layers().
_freeze_net(cls, params) ==
    [p \in DOMAIN params |->
        IF p \in parameters(params, backbone_layers(cls))
        THEN [params[p] EXCEPT !.requires_grad = FALSE]
        ELSE params[p]]

\* The two conditions of __init__ (RunsInitialize_always: the first one dropped).
RunsInitialize_always(n) == TRUE

RunsInitialize(n) == ~n.pretrained

RunsFreeze(n) == n.freeze

NoNet == [pc |-> "idle", cls |-> "none", num_classes |-> 0, pretrained |-> FALSE,
          freeze |-> FALSE, params |-> << >>, log |-> << >>, called |-> "none"]

\* cls(num_classes, pretrained, freeze): __init__ is entered.
NewModel(cls, num_classes, pretrained, freeze) ==
    /\ net.pc = "idle"
    /\ net' = [NoNet EXCEPT !.pc = "line 11", !.cls = cls, !.num_classes = num_classes,
                            !.pretrained = pretrained, !.freeze = freeze]
    /\ UNCHANGED dataVars

\* line 11: self.build_layers(num_classes, pretrained)
BuildLayers(download_ok) ==
    /\ net.pc = "line 11"
    /\ LET b == build_layers(net.cls, net.num_classes, net.pretrained, download_ok)
       IN  net' = [net EXCEPT !.pc = IF b.ok THEN "line 13" ELSE "raised",
                              !.params = b.params,
                              !.log = Append(@, "build_layers")]
    /\ UNCHANGED dataVars

\* lines 13-14: if not pretrained: self._initialize_weights()
InitializeWeights ==
    /\ net.pc = "line 13"
    /\ net' = IF RunsInitialize(net)
              THEN [net EXCEPT !.pc = "line 16",
                               !.params = _initialize_weights(@),
                               !.log = Append(@, "_initialize_weights")]
              ELSE [net EXCEPT !.pc = "line 16"]
    /\ UNCHANGED dataVars

\* lines 16-17: if freeze: self._freeze_net()
FreezeNet ==
    /\ net.pc = "line 16"
    /\ net' = IF RunsFreeze(net)
              THEN [net EXCEPT !.pc = "done",
                               !.params = _freeze_net(net.cls, @),
                               !.log = Append(@, "_freeze_net")]
              ELSE [net EXCEPT !.pc = "done"]
    /\ UNCHANGED dataVars

\* forward(x), backbone_layers(), classifier_layers() on the constructed
\* model: none of them writes a parameter's requires_grad.
Call(method) ==
    /\ net.pc = "done"
    /\ net' = [net EXCEPT !.called = method]
    /\ UNCHANGED dataVars

----------------------------------------------------------------------------
(* Specification of the indexer: any files on disk, any metadata table, any *)
(* sequence of constructions of the two classes.                           *)

EmptyStore == [key \in Classes \X ListAttrs |-> <<>>]

NoCall == [n |-> 0, cls |-> "none", err |-> "none", at |-> <<>>,
           mean |-> None, std |-> None, before |-> EmptyStore, failures |-> 0]

InitProcess ==
    /\ store = EmptyStore
    /\ objects = <<>>
    /\ lastCall = NoCall
    /\ lastOp = NoOp
    /\ lastSet = <<>>
    /\ net = NoNet

Init ==
    /\ disk \in SUBSET CandidatePaths
    /\ meta \in Tables
    /\ InitProcess

Next == \E cls \in Classes : Construct(cls, "train", None, None)

Spec == Init /\ [][Next]_vars

----------------------------------------------------------------------------
(* Specification of the phase and the statistics: one profile with two      *)
(* files, constructions with every kind of argument, then set_phase and    *)
(* transform calls in any order.                                           *)

PhaseArgs == {"train", "test", "val"}

InitPhase ==
    /\ disk = { <<IMG_ROOT, P_male, <<"mask1", ".jpg">> >>,
                <<IMG_ROOT, P_male, <<"normal", ".jpg">> >> }
    /\ meta = <<P_male>>
    /\ InitProcess

NextPhase ==
    \/ \E cls \in Classes, phase \in PhaseArgs,
          mean \in {None, SuppliedMean}, std \in {None, SuppliedStd} :
            Construct(cls, phase, mean, std)
    \/ \E i \in 1..Len(objects), phase \in PhaseArgs : set_phase(i, phase)
    \/ \E i \in 1..Len(objects) : transform(i)

SpecPhase == InitPhase /\ [][NextPhase]_vars

----------------------------------------------------------------------------
(* Specification of the model family: one model object, constructed step   *)
(* by step with any arguments, then used.                                  *)

InitModel ==
    /\ disk = {}
    /\ meta = <<>>
    /\ InitProcess

NextModel ==
    \/ \E cls \in ModelClasses, num_classes \in {2, 3}, pretrained \in BOOLEAN,
          freeze \in BOOLEAN : NewModel(cls, num_classes, pretrained, freeze)
    \/ \E download_ok \in BOOLEAN : BuildLayers(download_ok)
    \/ InitializeWeights
    \/ FreezeNet
    \/ \E method \in {"forward", "backbone_layers", "classifier_layers"} : Call(method)

SpecModel == InitModel /\ [][NextModel]_vars

----------------------------------------------------------------------------
(* Vocabulary of the properties *)

MULTI == "MaskMultiLabelDataset"
BASE == "MaskBaseDataset"

Called == lastCall.n >= 1
Completed == Called /\ lastCall.err = "none"
Failed == Called /\ lastCall.err # "none"

\* The lists as the class of the last constructor call reads them, before
\* and after the call, and how many entries the call appended to each.
Before(attr) == ListOf(lastCall.before, lastCall.cls, attr)
After(attr) == ListOf(store, lastCall.cls, attr)
Appended(attr) == Len(After(attr)) - Len(Before(attr))

IsPrefix(s, t) == Len(s) <= Len(t) /\ SubSeq(t, 1, Len(s)) = s

Range(s) == {s[i] : i \in 1..Len(s)}

\* The seven canonical file names in their order, and the fixed label mapping.
CanonicalStems ==
    <<"mask1", "mask2", "mask3", "mask4", "mask5", "incorrect_mask", "normal">>

CanonicalFile(stem) == <<stem, ".jpg">>

LabelOfStem(stem) ==
    CASE stem = "incorrect_mask" -> 1
      [] stem = "normal" -> 2
      [] OTHER -> 0

\* Every (table row, canonical file name) in row order and, within a row, in
\* canonical order; and those of them whose file exists.
RowFilePairs ==
    LET w == Len(CanonicalStems)
    IN  [k \in 1..(Len(meta) * w) |->
            [row |-> ((k - 1) \div w) + 1,
             profile |-> meta[((k - 1) \div w) + 1],
             stem |-> CanonicalStems[((k - 1) % w) + 1]]]

PathOfPair(pf) == <<IMG_ROOT, pf.profile, CanonicalFile(pf.stem)>>

PairExists(pf) == PathOfPair(pf) \in disk

ExistingPairs == SelectSeq(RowFilePairs, PairExists)

WellFormed(profile) == Len(profile) = 4

Obj == 1..Len(objects)

Idx(s) == 1..Len(s)

\* gender_labels[k] is the label of the gender field of image_paths[k]'s profile.
GenderDescribes(g, path) ==
    /\ WellFormed(path[2])
    /\ getattr_GenderLabels(path[2][2]).ok
    /\ g = getattr_GenderLabels(path[2][2]).value

----------------------------------------------------------------------------
(* Properties of the indexer, checked under Spec *)

\* C1 (as claimed): after every completed setup(), in a run in which no
\* setup() has failed, every dataset object has len() = len(image_paths) =
\* len(labels), and every multi-label object has gender_labels of that same
\* length, gender_labels[k] describing image_paths[k].
C1_SequencesAligned ==
    (Completed /\ lastCall.failures = 0) =>
        \A i \in Obj :
            LET o == objects[i]
            IN  /\ len(o) = Len(image_paths(o))
                /\ Len(image_paths(o)) = Len(labels(o))
                /\ o.cls = MULTI =>
                      /\ Len(gender_labels(o)) = Len(image_paths(o))
                      /\ \A k \in Idx(gender_labels(o)) :
                            GenderDescribes(gender_labels(o)[k], image_paths(o)[k])

\* C2 (as claimed): the first setup() of a process, when it completes, yields
\* exactly one sample for each (profile of the table, canonical file name)
\* whose file exists and no other sample, in table order and canonical order,
\* with the fixed label of the file name and, in the multi-label class, gender
\* label 0 for a male and 1 for a female profile.
C2_OneSamplePerProfileAndFile ==
    (lastCall.n = 1 /\ Completed) =>
        LET paths == After("image_paths")
            wanted == {PathOfPair(RowFilePairs[k]) : k \in {j \in Idx(RowFilePairs) :
                                                            PairExists(RowFilePairs[j])}}
        IN  /\ \A p \in wanted : Cardinality({i \in Idx(paths) : paths[i] = p}) = 1
            /\ Range(paths) \subseteq wanted
            /\ Len(After("labels")) = Len(paths)
            /\ \A i \in Idx(paths) : After("labels")[i] = LabelOfStem(paths[i][3][1])
            /\ lastCall.cls = MULTI =>
                  /\ Len(After("gender_labels")) = Len(paths)
                  /\ \A i \in Idx(paths) :
                        /\ paths[i][2][2] = "male" => After("gender_labels")[i] = PyInt(0)
                        /\ paths[i][2][2] = "female" => After("gender_labels")[i] = PyInt(1)

\* C2 (amended): the first setup() of a process, when it completes, yields
\* exactly one sample for each (row of the table, canonical file name) whose
\* file exists and no other sample, in row order and canonical order within a
\* row (a profile listed in two rows yields its samples twice), with the fixed
\* label of the file name and, in the multi-label class, gender label 0 for a
\* male and 1 for a female profile. One row "000001_male_Asian_20" with only
\* mask1.jpg on disk yields one sample, label 0, gender label 0.
C2_OneSamplePerRowAndFile ==
    (lastCall.n = 1 /\ Completed) =>
        LET paths == After("image_paths")
        IN  /\ Len(paths) = Len(ExistingPairs)
            /\ \A i \in Idx(paths) : paths[i] = PathOfPair(ExistingPairs[i])
            /\ Len(After("labels")) = Len(paths)
            /\ \A i \in Idx(paths) : After("labels")[i] = LabelOfStem(ExistingPairs[i].stem)
            /\ lastCall.cls = MULTI =>
                  /\ Len(After("gender_labels")) = Len(paths)
                  /\ \A i \in Idx(paths) :
                        /\ ExistingPairs[i].profile[2] = "male" =>
                              After("gender_labels")[i] = PyInt(0)
                        /\ ExistingPairs[i].profile[2] = "female" =>
                              After("gender_labels")[i] = PyInt(1)
            /\ (/\ meta = <<P_male>>
                /\ {p \in disk : p[2] = P_male} = {<<IMG_ROOT, P_male, <<"mask1", ".jpg">> >>}) =>
                  /\ Len(paths) = 1
                  /\ After("labels") = <<0>>
                  /\ lastCall.cls = MULTI => After("gender_labels") = <<PyInt(0)>>

\* C2 witness: a first multi-label setup() that completed over two different
\* rows, each with a file on disk, one of them with two.
C2_Witness ==
    /\ lastCall.n = 1 /\ Completed /\ lastCall.cls = MULTI
    /\ meta = <<P_female, P_male>>
    /\ Len(After("image_paths")) = 3

\* C6 (as claimed): a multi-label setup() over a table that holds a profile
\* name not made of exactly four fields fails with ValueError, whichever
\* files exist.
C6_MalformedProfileFails ==
    (Called /\ lastCall.cls = MULTI /\ \E k \in Idx(meta) : ~WellFormed(meta[k])) =>
        lastCall.err = "ValueError"

\* C7: every entry of image_paths exists on disk, ends with a recognized image
\* extension and is img_root/<a profile of the table>/<a canonical file name>;
\* a missing canonical file is skipped without an error: an error is raised
\* only at a file that exists, and a setup() that finds no file completes
\* and appends nothing.
C7_AppendedPathsExist ==
    /\ \A cls \in Classes : \A e \in Range(ListOf(store, cls, "image_paths")) :
          /\ e \in disk
          /\ e[3][2] \in IMG_EXTENSIONS
          /\ e[1] = IMG_ROOT
          /\ e[2] \in Range(meta)
          /\ e[3] \in {CanonicalFile(CanonicalStems[k]) : k \in Idx(CanonicalStems)}
    /\ Failed => lastCall.at \in disk
    /\ (Called /\ ExistingPairs = <<>>) =>
          Completed /\ Appended("image_paths") = 0 /\ Appended("labels") = 0

\* C7 witness: a setup() over two rows that completed, appended the one file
\* that exists and skipped the missing ones.
C7_Witness ==
    /\ Completed /\ Len(meta) = 2
    /\ Appended("image_paths") = 1
    /\ \E k \in Idx(RowFilePairs) : ~PairExists(RowFilePairs[k])

\* C8: all dataset objects read the same image_paths and labels; a further
\* construction appends what its setup() finds to them, so every existing
\* object's len() grows by that number, and the entries already present keep
\* their index and value.
C8_Shared ==
    \A i, j \in Obj :
        /\ image_paths(objects[i]) = image_paths(objects[j])
        /\ labels(objects[i]) = labels(objects[j])

C8_Step ==
    (lastCall'.n = lastCall.n + 1) =>
        LET c == lastCall'.cls
            found == Len(ListOf(store', c, "image_paths")) - Len(ListOf(store, c, "image_paths"))
        IN  /\ lastCall'.err = "none" => found = Len(ExistingPairs)
            /\ \A i \in Obj :
                  LET k == objects[i].cls
                  IN  /\ IsPrefix(ListOf(store, k, "image_paths"), ListOf(store', k, "image_paths"))
                      /\ IsPrefix(ListOf(store, k, "labels"), ListOf(store', k, "labels"))
                      /\ Len(ListOf(store', k, "image_paths")) =
                            Len(ListOf(store, k, "image_paths")) + found
                      /\ Len(ListOf(store', k, "labels")) =
                            Len(ListOf(store, k, "labels")) + found

\* C8: the lists are shared by all objects at all times, and every step
\* only appends to them, by the same number for every object.
C8_SharedAppendOnly == []C8_Shared /\ [][C8_Step]_vars

\* C8 witness: a second object of the other class whose setup() appended
\* samples to the lists the first object reads.
C8_Witness ==
    /\ lastCall.n = 2 /\ Len(objects) = 2
    /\ objects[1].cls = BASE /\ objects[2].cls = MULTI
    /\ Appended("image_paths") = 2
    /\ len(objects[1]) = 4

\* C10 (as claimed): when the multi-label setup() fails on a profile, the
\* call has appended equally many entries to image_paths, labels and
\* gender_labels.
C10_FailureKeepsAlignment ==
    (Failed /\ lastCall.cls = MULTI) =>
        /\ Appended("image_paths") = Appended("labels")
        /\ Appended("labels") = Appended("gender_labels")

----------------------------------------------------------------------------
(* Properties of the phase and the statistics, checked under SpecPhase *)

\* C3 (as claimed): the statistics of a constructed dataset are the values
\* given to the constructor when both were given, and when none was given
\* they are computed over the first min(N, 3000) entries of image_paths.
C3_StatisticsSuppliedOrComputed ==
    Completed =>
        LET o == objects[Len(objects)]
            sample == SubSeq(image_paths(o), 1, Min(len(o), StatSampleCap))
        IN  /\ (lastCall.mean # None /\ lastCall.std # None) =>
                  o.mean = lastCall.mean /\ o.std = lastCall.std
            /\ (lastCall.mean = None /\ lastCall.std = None) =>
                  o.mean = <<"computed mean", sample>> /\ o.std = <<"computed std", sample>>

\* C4: set_phase(p) with p outside {train, test} fails and leaves the phase
\* as it was; with train or test it succeeds and sets the phase to p, the
\* phase stays p until the next successful set_phase, and every transform()
\* in between uses train_transform for train and test_transform for test.
C4_SetPhaseSelectsTransform ==
    /\ lastOp.op = "set_phase" =>
          IF lastOp.arg \in {"train", "test"}
          THEN lastOp.result = <<"ok">> /\ objects[lastOp.obj].phase = lastOp.arg
          ELSE /\ lastOp.result = <<"AssertionError">>
               /\ objects[lastOp.obj].phase = lastOp.before
    /\ \A i \in Obj : lastSet[i] # "unset" => objects[i].phase = lastSet[i]
    /\ lastOp.op = "transform" =>
          /\ lastSet[lastOp.obj] = "train" => lastOp.result = train_transform
          /\ lastSet[lastOp.obj] = "test" => lastOp.result = test_transform

\* C4 witness: a transform() that used test_transform on an object whose
\* phase a set_phase("test") had set.
C4_Witness ==
    /\ lastOp.op = "transform"
    /\ lastSet[lastOp.obj] = "test"
    /\ lastOp.result = test_transform

----------------------------------------------------------------------------
(* Properties of the model family, checked under SpecModel *)

Constructed == net.pc = "done"

RequiresGrad(module) ==
    {net.params[p].requires_grad : p \in parameters(net.params, module)}

\* C5: for AlexNet and VGG19, pretrained or not, after construction with
\* freeze every backbone parameter has requires_grad off and every
\* classifier parameter has it on; without freeze every parameter of both
\* groups has it on.
C5_FreezeDisablesBackboneOnly ==
    (Constructed /\ net.cls \in {"AlexNet", "VGG19"}) =>
        /\ RequiresGrad(backbone_layers(net.cls)) = {~net.freeze}
        /\ RequiresGrad(classifier_layers(net.cls)) = {TRUE}

\* C5 witness: a pretrained VGG19 constructed with freeze.
C5_Witness ==
    /\ Constructed /\ net.cls = "VGG19" /\ net.pretrained /\ net.freeze
    /\ net.params[<<"net.features", 34, "bias">>].requires_grad = FALSE
    /\ net.params[<<"net.classifier", 6, "weight">>].requires_grad = TRUE

\* The steps a construction with these arguments runs, in order.
StepsOf(pretrained, freeze) ==
    <<"build_layers">>
        \o (IF pretrained THEN << >> ELSE <<"_initialize_weights">>)
        \o (IF freeze THEN <<"_freeze_net">> ELSE << >>)

\* C9: construction runs build_layers first, then _initialize_weights iff
\* not pretrained, then _freeze_net iff freeze, each at most once and in that
\* order; when build_layers raises, neither of the other two runs; and no
\* later operation turns requires_grad back on for a frozen parameter.
C9_Order ==
    /\ IsPrefix(net.log, StepsOf(net.pretrained, net.freeze))
    /\ Constructed => net.log = StepsOf(net.pretrained, net.freeze)
    /\ net.pc = "raised" => net.log = <<"build_layers">>
    /\ net.cls = "MaskBaseModel" => net.pc \in {"line 11", "raised"}
    /\ net.pc \in {"line 13", "line 16", "done"} => net.log[1] = "build_layers"

C9_StaysFrozen ==
    \A p \in DOMAIN net.params :
        ~net.params[p].requires_grad =>
            p \in DOMAIN net'.params /\ ~net'.params[p].requires_grad

\* C9: the order holds in every state, and no step un-freezes a parameter.
C9_ConstructionOrder == []C9_Order /\ [][C9_StaysFrozen]_vars

\* C9 witness: a model built, initialized, then frozen, and used afterwards
\* with its backbone still frozen.
C9_Witness ==
    /\ Constructed /\ net.called = "forward"
    /\ net.log = <<"build_layers", "_initialize_weights", "_freeze_net">>
    /\ RequiresGrad(backbone_layers(net.cls)) = {FALSE}

====
